---- MODULE Spec2Model ----
(***************************************************************************)
(* Model of pag-web/script.js: the shopping cart of the "Tienda Navidena"  *)
(* page.  The state is the cart object, the localStorage slot              *)
(* 'tienda_cart', and the parts of the DOM the script writes.  Every event *)
(* listener that reads or writes the cart or the product list is one       *)
(* action, and so is a page (re)load.  The two listeners that show and     *)
(* hide the cart panel (lines 211-212) and the fade timers of              *)
(* showMiniAlert (lines 78-85) touch none of this state and are left out.  *)
(*                                                                         *)
(* JavaScript strings are TLA+ strings.  A JSON text is the sequence of    *)
(* its lexical tokens (each token a string), so JSON.stringify and         *)
(* JSON.parse are a printer and a parser, not the identity.                *)
(*                                                                         *)
(* Spec is the page from a first visit on, SpecReturn from a later visit,  *)
(* SpecSlot from a visit that finds the slot written by something else.    *)
(* SpecMoney and SpecEscape call formatMoney and escapeHtml on their own.  *)
(***************************************************************************)
EXTENDS Integers, Sequences, FiniteSets, TLC

(***************************************************************************)
(* Bounds of the model.                                                    *)
(***************************************************************************)
\* number of catalog records (a prefix of the source's list) that are modelled
NumProducts == 2
\* the add and plus handlers are not taken beyond this quantity
MaxQty == 2

(***************************************************************************)
(* Data: script.js lines 8-17.                                             *)
(***************************************************************************)
productsData ==
  << [id |-> 1, name |-> "Caja de galletas navideñas", price |-> 12000,
      desc |-> "Galletas artesanales con decoraciones festivas"],
     [id |-> 2, name |-> "Set de mug + cocoa", price |-> 25000,
      desc |-> "Mug temático y chocolate en polvo premium"],
     [id |-> 3, name |-> "Tarjeta personalizada", price |-> 6000,
      desc |-> "Tarjeta hecha a mano con mensaje"],
     [id |-> 4, name |-> "Adorno para árbol (pack 3)", price |-> 18000,
      desc |-> "Adornos de cerámica pintados a mano"],
     [id |-> 5, name |-> "Velas aromáticas", price |-> 15000,
      desc |-> "Aroma canela y naranja, ideal para ambiente navideño"],
     [id |-> 6, name |-> "Guirnalda LED", price |-> 22000,
      desc |-> "Luces cálidas para decorar tu hogar"],
     [id |-> 7, name |-> "Calcetín navideño grande", price |-> 10000,
      desc |-> "Para colgar en la chimenea o pared"],
     [id |-> 8, name |-> "Muñeco de nieve decorativo", price |-> 30000,
      desc |-> "Figura de mesa con detalles brillantes"] >>

\* the records the products array holds when the script starts
catalog == SubSeq(productsData, 1, NumProducts)

(***************************************************************************)
(* Strings and numbers.                                                    *)
(***************************************************************************)
Digits == <<"0", "1", "2", "3", "4", "5", "6", "7", "8", "9">>

DigitChars == {Digits[d] : d \in 1..10}

IsDigit(c) == c \in DigitChars

DigitVal == [c \in DigitChars |-> (CHOOSE d \in 1..10 : Digits[d] = c) - 1]

CharAt(s, i) == SubSeq(s, i, i)

RECURSIVE NatToString(_)
NatToString(n) ==
  IF n < 10 THEN Digits[n + 1]
  ELSE NatToString(n \div 10) \o Digits[(n % 10) + 1]

\* Number.prototype.toString / template-literal conversion of an integer
numToString(n) == IF n < 0 THEN "-" \o NatToString(0 - n) ELSE NatToString(n)

\* a JavaScript number that may be NaN
Num(n) == [nan |-> FALSE, n |-> n]
NaN == [nan |-> TRUE, n |-> 0]

RECURSIVE DigitsValue(_, _, _)
\* value of the longest run of digits of s starting at position i, given acc
DigitsValue(s, i, acc) ==
  IF i > Len(s) \/ ~IsDigit(CharAt(s, i)) THEN acc
  ELSE DigitsValue(s, i + 1, acc * 10 + DigitVal[CharAt(s, i)])

\* parseInt(s) for a string without leading white space: an optional sign,
\* then the longest prefix of digits; NaN when there is no digit
parseInt(s) ==
  LET neg == Len(s) >= 1 /\ CharAt(s, 1) = "-"
      start == IF neg \/ (Len(s) >= 1 /\ CharAt(s, 1) = "+") THEN 2 ELSE 1
  IN IF start > Len(s) \/ ~IsDigit(CharAt(s, start)) THEN NaN
     ELSE IF neg THEN Num(0 - DigitsValue(s, start, 0))
     ELSE Num(DigitsValue(s, start, 0))

RECURSIVE DigitRun(_, _)
\* length of the run of digits of s that starts at position i
DigitRun(s, i) ==
  IF i > Len(s) \/ ~IsDigit(CharAt(s, i)) THEN 0 ELSE 1 + DigitRun(s, i + 1)

\* \w of the regular expressions used here, restricted to the characters a
\* number's decimal form can contain: digits are word characters, '-' is not
IsWordChar(c) == IsDigit(c)

RECURSIVE GroupFrom(_, _)
\* n.toString().replace(/\B(?=(\d{3})+(?!\d))/g, '.') from position i on:
\* a '.' is inserted between characters i-1 and i when both are word
\* characters and the digits from i on form a run whose length is a positive
\* multiple of three
GroupFrom(s, i) ==
  IF i > Len(s) THEN ""
  ELSE LET here == i > 1 /\ IsWordChar(CharAt(s, i - 1)) /\ IsWordChar(CharAt(s, i))
                   /\ DigitRun(s, i) >= 3 /\ DigitRun(s, i) % 3 = 0
       IN (IF here THEN "." ELSE "") \o CharAt(s, i) \o GroupFrom(s, i + 1)

\* mutant of formatMoney: only the last three digits are set apart, as with
\* the pattern /\B(?=\d{3}(?!\d))/g
formatMoney_oneSeparator(n) ==
  LET s == numToString(n)
  IN IF Len(s) > 3 /\ IsDigit(CharAt(s, Len(s) - 3))
     THEN "$" \o SubSeq(s, 1, Len(s) - 3) \o "." \o SubSeq(s, Len(s) - 2, Len(s))
     ELSE "$" \o s

formatMoney(n) == "$" \o GroupFrom(numToString(n), 1)

\* the characters that occur in s
CharsOf(s) == {CharAt(s, i) : i \in 1..Len(s)}

RECURSIVE ReplaceFrom(_, _, _, _)
\* s from position i on with every c replaced by rep: the text up to the next
\* c, then rep, then the rest treated the same way
ReplaceFrom(s, i, c, rep) ==
  LET at == {j \in i..Len(s) : CharAt(s, j) = c}
  IN IF at = {} THEN SubSeq(s, i, Len(s))
     ELSE LET j == CHOOSE x \in at : \A y \in at : x <= y
          IN SubSeq(s, i, j - 1) \o rep \o ReplaceFrom(s, j + 1, c, rep)

\* s.replace(/c/g, rep) for a single character c: s itself when c does not
\* occur in it
ReplaceAll(s, c, rep) ==
  IF c \notin CharsOf(s) THEN s ELSE ReplaceFrom(s, 1, c, rep)

\* mutant of escapeHtml: '&' is replaced after the other four characters
escapeHtml_ampersandLast(s) ==
  ReplaceAll(ReplaceAll(ReplaceAll(ReplaceAll(ReplaceAll(s,
    "<", "&lt;"), ">", "&gt;"), "\"", "&quot;"), "'", "&#039;"), "&", "&amp;")

escapeHtml(s) ==
  ReplaceAll(ReplaceAll(ReplaceAll(ReplaceAll(ReplaceAll(s,
    "&", "&amp;"), "<", "&lt;"), ">", "&gt;"), "\"", "&quot;"), "'", "&#039;")

(***************************************************************************)
(* The cart object and its JSON text.                                      *)
(*                                                                         *)
(* A cart object is a function from property keys (strings) to entries,    *)
(* an entry being the record {...product, qty}.  The property keys of the  *)
(* carts modelled are canonical array indices ("1", "2", ...), which       *)
(* JavaScript enumerates in ascending numeric order.                       *)
(***************************************************************************)
EmptyObject == <<>>

HasKey(obj, k) == k \in DOMAIN obj

\* obj[k] = e
SetKey(obj, k, e) == [x \in (DOMAIN obj) \cup {k} |-> IF x = k THEN e ELSE obj[x]]

\* delete obj[k]
DeleteKey(obj, k) == [x \in (DOMAIN obj) \ {k} |-> obj[x]]

RECURSIVE SortedKeys(_, _)
\* the keys ks in ascending order of their index idx[k]
SortedKeys(ks, idx) ==
  IF ks = {} THEN <<>>
  ELSE LET m == CHOOSE k \in ks : \A o \in ks : idx[k] <= idx[o]
       IN <<m>> \o SortedKeys(ks \ {m}, idx)

\* Object.keys(obj)
ObjectKeys(obj) == SortedKeys(DOMAIN obj, [k \in DOMAIN obj |-> parseInt(k).n])

\* Object.values(obj)
ObjectValues(obj) ==
  LET keys == ObjectKeys(obj) IN [i \in 1..Len(keys) |-> obj[keys[i]]]

\* a JSON string literal; the strings modelled contain no '"', '\' or
\* control character, so no character of them is escaped
Quote(s) == "\"" \o s \o "\""

IsStringToken(t) == Len(t) >= 2 /\ CharAt(t, 1) = "\"" /\ CharAt(t, Len(t)) = "\""

Unquote(t) == SubSeq(t, 2, Len(t) - 1)

\* an integer literal of JSON
IsNumberToken(t) == ~parseInt(t).nan /\ numToString(parseInt(t).n) = t

EntryTokens(e) ==
  << "{", Quote("id"), ":", numToString(e.id), ",",
          Quote("name"), ":", Quote(e.name), ",",
          Quote("price"), ":", numToString(e.price), ",",
          Quote("desc"), ":", Quote(e.desc), ",",
          Quote("qty"), ":", numToString(e.qty), "}" >>

EntryLen == 21

RECURSIVE MemberTokens(_, _, _)
MemberTokens(obj, keys, i) ==
  IF i > Len(keys) THEN <<>>
  ELSE (IF i > 1 THEN <<",">> ELSE <<>>)
       \o <<Quote(keys[i]), ":">> \o EntryTokens(obj[keys[i]])
       \o MemberTokens(obj, keys, i + 1)

\* JSON.stringify(value) for null and for a cart object
JSONstringify(type, obj) ==
  IF type = "null" THEN <<"null">>
  ELSE <<"{">> \o MemberTokens(obj, ObjectKeys(obj), 1) \o <<"}">>

ParseError == [ok |-> FALSE, type |-> "undefined", obj |-> EmptyObject]

\* the entry object whose text starts at token i, if there is one
IsEntryAt(text, i) ==
  /\ i + EntryLen - 1 <= Len(text)
  /\ text[i] = "{" /\ text[i + 20] = "}"
  /\ \A j \in {2, 6, 10, 14, 18} : text[i + j] = ":"
  /\ \A j \in {4, 8, 12, 16} : text[i + j] = ","
  /\ text[i + 1] = Quote("id") /\ IsNumberToken(text[i + 3])
  /\ text[i + 5] = Quote("name") /\ IsStringToken(text[i + 7])
  /\ text[i + 9] = Quote("price") /\ IsNumberToken(text[i + 11])
  /\ text[i + 13] = Quote("desc") /\ IsStringToken(text[i + 15])
  /\ text[i + 17] = Quote("qty") /\ IsNumberToken(text[i + 19])

EntryAt(text, i) ==
  [id |-> parseInt(text[i + 3]).n, name |-> Unquote(text[i + 7]),
   price |-> parseInt(text[i + 11]).n, desc |-> Unquote(text[i + 15]),
   qty |-> parseInt(text[i + 19]).n]

RECURSIVE ParseMembers(_, _, _)
\* the members of an object from token i on, added to obj in text order (a
\* repeated key keeps its last value); the text must end with the object
ParseMembers(text, i, obj) ==
  IF i + 2 + EntryLen > Len(text) THEN ParseError
  ELSE IF ~(IsStringToken(text[i]) /\ text[i + 1] = ":" /\ IsEntryAt(text, i + 2))
  THEN ParseError
  ELSE LET obj2 == SetKey(obj, Unquote(text[i]), EntryAt(text, i + 2))
           next == i + 2 + EntryLen
       IN IF text[next] = "}" /\ next = Len(text)
          THEN [ok |-> TRUE, type |-> "object", obj |-> obj2]
          ELSE IF text[next] = "," THEN ParseMembers(text, next + 1, obj2)
          ELSE ParseError

\* JSON.parse(text): ok is FALSE when it throws SyntaxError.  The texts given
\* to it are 'null', an object of cart entries, or no JSON at all.
JSONparse(text) ==
  IF text = <<"null">> THEN [ok |-> TRUE, type |-> "null", obj |-> EmptyObject]
  ELSE IF text = <<"{", "}">> THEN [ok |-> TRUE, type |-> "object", obj |-> EmptyObject]
  ELSE IF Len(text) >= 1 /\ text[1] = "{" THEN ParseMembers(text, 2, EmptyObject)
  ELSE ParseError

(***************************************************************************)
(* State.                                                                  *)
(***************************************************************************)
VARIABLES
  products,      \* the catalog array (line 8)
  localStorage,  \* the slot 'tienda_cart': has = FALSE when getItem gives null
  cart,          \* the cart object (line 19), when cartType = "object"
  cartType,      \* "object", "null", or "undefined" (line 19 never completed)
  phase,         \* "ready": init returned; "initFailed": init threw after
                 \* renderProducts; "crashed": the script threw at line 19
  productGrid,   \* the data-id of the 'Añadir' button of each card, in order
  cartCount,     \* cartCount.textContent
  cartList,      \* the items rendered in the cart panel, in order
  totalEl,       \* totalEl.textContent
  error,         \* the exception the latest event's code threw, or "none"
  miniAlert,     \* the text given to showMiniAlert by the latest event, or ""
  alertMsg,      \* the text given to alert() by the latest event, or ""
  summaryDoc,    \* the document written to a new window by the latest event
  openedUrl,     \* the URL given to window.open by the latest event, or ""
  lastOp,        \* the latest event: its listener and its argument
  fnArg,         \* the argument of a call of a utility function on its own
  fnResult       \* whether that call has returned, and the value it returned

vars == << products, localStorage, cart, cartType, phase, productGrid,
           cartCount, cartList, totalEl, error, miniAlert,
           alertMsg, summaryDoc, openedUrl, lastOp, fnArg, fnResult >>

\* a call that has not returned yet
Pending == [returned |-> FALSE, value |-> ""]

\* no utility function is called on its own
NoCall == fnArg = "" /\ fnResult = Pending

(***************************************************************************)
(* Rendering and persistence.                                              *)
(***************************************************************************)
\* renderProducts(list): one card per product; the card's button carries
\* data-id="${p.id}"
renderProducts(list) == [i \in 1..Len(list) |-> numToString(list[i].id)]

RECURSIVE SumQty_countItems(_, _)
\* mutant of SumQty: the reducer adds 1 for each item instead of its qty
SumQty_countItems(items, i) ==
  IF i > Len(items) THEN 0 ELSE 1 + SumQty_countItems(items, i + 1)

RECURSIVE SumQty(_, _)
\* Object.values(cart).reduce((sum, item) => sum + item.qty, 0), from item i
SumQty(items, i) ==
  IF i > Len(items) THEN 0 ELSE items[i].qty + SumQty(items, i + 1)

RECURSIVE SumTotal_ignoresQty(_, _)
\* mutant of SumTotal: each item counts once, whatever its quantity
SumTotal_ignoresQty(items, i) ==
  IF i > Len(items) THEN 0
  ELSE items[i].price + SumTotal_ignoresQty(items, i + 1)

RECURSIVE SumTotal(_, _)
\* total += item.qty * item.price over the items, from item i
SumTotal(items, i) ==
  IF i > Len(items) THEN 0
  ELSE items[i].qty * items[i].price + SumTotal(items, i + 1)

\* the cart-item element of one entry (lines 160-176): the data-id its three
\* buttons carry and the quantity it shows
CartItem(item) == [id |-> numToString(item.id), qty |-> numToString(item.qty)]

\* renderCart(): Object.values(null) throws TypeError before anything is
\* written
renderCart(type, obj) ==
  IF type # "object"
  THEN [threw |-> TRUE, cartCount |-> "", cartList |-> <<>>, totalEl |-> ""]
  ELSE LET items == ObjectValues(obj)
       IN [threw |-> FALSE,
           cartCount |-> numToString(SumQty(items, 1)),
           cartList |-> [i \in 1..Len(items) |-> CartItem(items[i])],
           totalEl |-> formatMoney(SumTotal(items, 1))]

\* mutant of persistCart: an empty cart is not written, the slot is removed
persistCart_dropsEmpty(type, obj) ==
  IF obj = EmptyObject THEN [has |-> FALSE, text |-> <<>>]
  ELSE [has |-> TRUE, text |-> JSONstringify(type, obj)]

\* persistCart(): the slot after localStorage.setItem('tienda_cart', ...)
persistCart(type, obj) == [has |-> TRUE, text |-> JSONstringify(type, obj)]

(***************************************************************************)
(* Page load: line 19, then init on DOMContentLoaded.  What the page shows *)
(* before the script writes it is not in the repository; it is "".         *)
(***************************************************************************)
\* mutant of StoredText: the slot is read under another name than the one
\* persistCart writes, so nothing is ever found
StoredText_otherKey(ls) == <<"{", "}">>

\* localStorage.getItem('tienda_cart') || '{}'
StoredText(ls) == IF ~ls.has \/ ls.text = <<>> THEN <<"{", "}">> ELSE ls.text

Startup(ls) ==
  LET p == JSONparse(StoredText(ls))
      r == renderCart(p.type, p.obj)
  IN IF ~p.ok
     THEN [phase |-> "crashed", error |-> "SyntaxError", cartType |-> "undefined",
           cart |-> EmptyObject, productGrid |-> <<>>, cartCount |-> "",
           cartList |-> <<>>, totalEl |-> ""]
     ELSE IF r.threw
     THEN [phase |-> "initFailed", error |-> "TypeError", cartType |-> p.type,
           cart |-> p.obj, productGrid |-> renderProducts(catalog),
           cartCount |-> "", cartList |-> <<>>, totalEl |-> ""]
     ELSE [phase |-> "ready", error |-> "none", cartType |-> p.type,
           cart |-> p.obj, productGrid |-> renderProducts(catalog),
           cartCount |-> r.cartCount, cartList |-> r.cartList,
           totalEl |-> r.totalEl]

NoOp == [op |-> "load", arg |-> ""]

InitWith(ls) ==
  LET s == Startup(ls)
  IN /\ products = catalog
     /\ localStorage = ls
     /\ cart = s.cart /\ cartType = s.cartType /\ phase = s.phase
     /\ productGrid = s.productGrid /\ cartCount = s.cartCount
     /\ cartList = s.cartList /\ totalEl = s.totalEl
     /\ error = s.error
     /\ miniAlert = "" /\ alertMsg = "" /\ summaryDoc = "" /\ openedUrl = ""
     /\ lastOp = NoOp

\* first visit: the slot has never been written
Init == InitWith([has |-> FALSE, text |-> <<>>]) /\ NoCall

\* the page is loaded again: the script runs from its first line on the slot
\* as it is
Reload ==
  LET s == Startup(localStorage)
  IN /\ products' = catalog
     /\ cart' = s.cart /\ cartType' = s.cartType /\ phase' = s.phase
     /\ productGrid' = s.productGrid /\ cartCount' = s.cartCount
     /\ cartList' = s.cartList /\ totalEl' = s.totalEl
     /\ error' = s.error
     /\ miniAlert' = "" /\ alertMsg' = "" /\ summaryDoc' = "" /\ openedUrl' = ""
     /\ lastOp' = [op |-> "reload", arg |-> ""]
     /\ UNCHANGED << localStorage, fnArg, fnResult >>

(***************************************************************************)
(* Cart management.                                                        *)
(***************************************************************************)
\* String(id): the property key of cart[id]
KeyOf(id) == IF id.nan THEN "NaN" ELSE numToString(id.n)

\* mutant of Find: the first product stands in when no product matches
Find_orFirst(list, id) ==
  IF \E i \in 1..Len(list) : ~id.nan /\ list[i].id = id.n
  THEN CHOOSE i \in 1..Len(list) :
         /\ ~id.nan /\ list[i].id = id.n
         /\ \A j \in 1..(i - 1) : list[j].id # id.n
  ELSE IF Len(list) > 0 THEN 1 ELSE 0

\* products.find(x => x.id === id): the index of the first match, 0 if none
Find(list, id) ==
  IF \E i \in 1..Len(list) : ~id.nan /\ list[i].id = id.n
  THEN CHOOSE i \in 1..Len(list) :
         /\ ~id.nan /\ list[i].id = id.n
         /\ \A j \in 1..(i - 1) : list[j].id # id.n
  ELSE 0

\* mutant of addToCart: a new entry starts with qty 1 and is then incremented
addToCart_startsAtOne(obj, product) ==
  LET key == numToString(product.id)
      o1 == IF ~HasKey(obj, key)
            THEN SetKey(obj, key, [id |-> product.id, name |-> product.name,
                                   price |-> product.price, desc |-> product.desc,
                                   qty |-> 1])
            ELSE obj
  IN SetKey(o1, key, [o1[key] EXCEPT !.qty = @ + 1])

\* mutant of addToCart: every add copies the product again and keeps only the
\* quantity of the entry
addToCart_refreshes(obj, product) ==
  LET key == numToString(product.id)
      qty == IF HasKey(obj, key) THEN obj[key].qty ELSE 0
  IN SetKey(obj, key, [id |-> product.id, name |-> product.name,
                       price |-> product.price, desc |-> product.desc,
                       qty |-> qty + 1])

\* lines 135-138: the cart object after the entry of product is created if
\* missing and its qty incremented
addToCart(obj, product) ==
  LET key == numToString(product.id)
      o1 == IF ~HasKey(obj, key)
            THEN SetKey(obj, key, [id |-> product.id, name |-> product.name,
                                   price |-> product.price, desc |-> product.desc,
                                   qty |-> 0])
            ELSE obj
  IN SetKey(o1, key, [o1[key] EXCEPT !.qty = @ + 1])

\* mutant of cartItemOp: 'minus' deletes the entry only below zero (< for <=)
cartItemOp_keepsZero(obj, op, key) ==
  IF op = "plus"
  THEN IF ~HasKey(obj, key) THEN [threw |-> TRUE, obj |-> obj]
       ELSE [threw |-> FALSE, obj |-> [obj EXCEPT ![key].qty = @ + 1]]
  ELSE IF op = "minus"
  THEN IF ~HasKey(obj, key) THEN [threw |-> TRUE, obj |-> obj]
       ELSE IF obj[key].qty - 1 < 0
       THEN [threw |-> FALSE, obj |-> DeleteKey(obj, key)]
       ELSE [threw |-> FALSE, obj |-> [obj EXCEPT ![key].qty = @ - 1]]
  ELSE IF op = "remove"
  THEN [threw |-> FALSE, obj |-> DeleteKey(obj, key)]
  ELSE [threw |-> FALSE, obj |-> obj]

\* mutant of cartItemOp: 'minus' deletes the entry whatever its quantity
cartItemOp_minusDeletes(obj, op, key) ==
  IF op = "plus"
  THEN IF ~HasKey(obj, key) THEN [threw |-> TRUE, obj |-> obj]
       ELSE [threw |-> FALSE, obj |-> [obj EXCEPT ![key].qty = @ + 1]]
  ELSE IF op = "minus"
  THEN IF ~HasKey(obj, key) THEN [threw |-> TRUE, obj |-> obj]
       ELSE [threw |-> FALSE, obj |-> DeleteKey(obj, key)]
  ELSE IF op = "remove"
  THEN [threw |-> FALSE, obj |-> DeleteKey(obj, key)]
  ELSE [threw |-> FALSE, obj |-> obj]

\* mutant of cartItemOp: 'remove' takes one unit off, as 'minus' does
cartItemOp_removeAsMinus(obj, op, key) ==
  IF op = "plus"
  THEN IF ~HasKey(obj, key) THEN [threw |-> TRUE, obj |-> obj]
       ELSE [threw |-> FALSE, obj |-> [obj EXCEPT ![key].qty = @ + 1]]
  ELSE IF op \in {"minus", "remove"}
  THEN IF ~HasKey(obj, key) THEN [threw |-> TRUE, obj |-> obj]
       ELSE IF obj[key].qty - 1 <= 0
       THEN [threw |-> FALSE, obj |-> DeleteKey(obj, key)]
       ELSE [threw |-> FALSE, obj |-> [obj EXCEPT ![key].qty = @ - 1]]
  ELSE [threw |-> FALSE, obj |-> obj]

\* lines 190-199: threw is TRUE when cart[id] is undefined and its qty is
\* read (TypeError); obj is the cart object afterwards
cartItemOp(obj, op, key) ==
  IF op = "plus"
  THEN IF ~HasKey(obj, key) THEN [threw |-> TRUE, obj |-> obj]
       ELSE [threw |-> FALSE, obj |-> [obj EXCEPT ![key].qty = @ + 1]]
  ELSE IF op = "minus"
  THEN IF ~HasKey(obj, key) THEN [threw |-> TRUE, obj |-> obj]
       ELSE IF obj[key].qty - 1 <= 0
       THEN [threw |-> FALSE, obj |-> DeleteKey(obj, key)]
       ELSE [threw |-> FALSE, obj |-> [obj EXCEPT ![key].qty = @ - 1]]
  ELSE IF op = "remove"
  THEN [threw |-> FALSE, obj |-> DeleteKey(obj, key)]
  ELSE [threw |-> FALSE, obj |-> obj]

\* the event's code threw exc before it changed anything
Throws(exc) ==
  /\ error' = exc
  /\ miniAlert' = "" /\ alertMsg' = "" /\ summaryDoc' = "" /\ openedUrl' = ""
  /\ UNCHANGED << products, localStorage, cart, cartType, phase, productGrid,
                  cartCount, cartList, totalEl, fnArg, fnResult >>

\* the event's code returned without touching the cart, the slot or the page
Returns(mini, alrt, doc, url) ==
  /\ error' = "none"
  /\ miniAlert' = mini /\ alertMsg' = alrt /\ summaryDoc' = doc /\ openedUrl' = url
  /\ UNCHANGED << products, localStorage, cart, cartType, phase, productGrid,
                  cartCount, cartList, totalEl, fnArg, fnResult >>

\* mutant of Mutates: renderCart() runs before the cart is updated, so the
\* page shows the cart as it was
Mutates_rendersFirst(obj, mini) ==
  LET r == renderCart("object", cart)
  IN /\ cart' = obj
     /\ localStorage' = persistCart("object", obj)
     /\ cartCount' = r.cartCount /\ cartList' = r.cartList /\ totalEl' = r.totalEl
     /\ error' = "none"
     /\ miniAlert' = mini /\ alertMsg' = "" /\ summaryDoc' = "" /\ openedUrl' = ""
     /\ UNCHANGED << products, cartType, phase, productGrid, fnArg, fnResult >>

\* cart = obj; persistCart(); renderCart(); showMiniAlert(mini) if mini # ""
Mutates(obj, mini) ==
  LET r == renderCart("object", obj)
  IN /\ cart' = obj
     /\ localStorage' = persistCart("object", obj)
     /\ cartCount' = r.cartCount /\ cartList' = r.cartList /\ totalEl' = r.totalEl
     /\ error' = "none"
     /\ miniAlert' = mini /\ alertMsg' = "" /\ summaryDoc' = "" /\ openedUrl' = ""
     /\ UNCHANGED << products, cartType, phase, productGrid, fnArg, fnResult >>

\* data-id values of elements of class 'add' that name no product
OtherAddIds == {"99", "abc"}

\* click on an 'Añadir' button (lines 118-121, 131-142)
AddClick ==
  /\ phase \in {"ready", "initFailed"}
  /\ \E dataId \in {productGrid[i] : i \in 1..Len(productGrid)} \cup OtherAddIds :
       LET id == parseInt(dataId)
           ix == Find(products, id)
       IN /\ lastOp' = [op |-> "add", arg |-> dataId]
          /\ IF ix = 0 THEN Returns("", "", "", "")
             ELSE IF cartType # "object" THEN Throws("TypeError")
             ELSE /\ HasKey(cart, KeyOf(id)) => cart[KeyOf(id)].qty < MaxQty
                  /\ Mutates(addToCart(cart, products[ix]),
                             escapeHtml(products[ix].name) \o " agregado")

\* click on a '-', '+' or 'Eliminar' button of the cart panel (lines 186-202)
CartItemClick ==
  /\ phase = "ready"
  /\ \E i \in 1..Len(cartList), op \in {"plus", "minus", "remove"} :
       LET id == parseInt(cartList[i].id)
           r == cartItemOp(cart, op, KeyOf(id))
       IN /\ lastOp' = [op |-> op, arg |-> cartList[i].id]
          /\ IF r.threw THEN Throws("TypeError")
             ELSE /\ (op = "plus") => cart[KeyOf(id)].qty < MaxQty
                  /\ Mutates(r.obj, "")

\* click on 'emptyBtn' (lines 214-221); ok is the answer to confirm()
EmptyCartClick ==
  /\ phase = "ready"
  /\ \E ok \in BOOLEAN :
       /\ lastOp' = [op |-> "empty", arg |-> IF ok THEN "yes" ELSE "no"]
       /\ IF ok THEN Mutates(EmptyObject, "Carrito vaciado")
          ELSE Returns("", "", "", "")

\* mutant of ClearHeaderClick: the cart is emptied whatever confirm() answers
ClearHeaderClick_noConfirm ==
  /\ phase = "ready"
  /\ \E ok \in BOOLEAN :
       /\ lastOp' = [op |-> "clear", arg |-> IF ok THEN "yes" ELSE "no"]
       /\ Mutates(EmptyObject, "Carrito vaciado")

\* click on 'clearBtn' (lines 222-229)
ClearHeaderClick ==
  /\ phase = "ready"
  /\ \E ok \in BOOLEAN :
       /\ lastOp' = [op |-> "clear", arg |-> IF ok THEN "yes" ELSE "no"]
       /\ IF ok THEN Mutates(EmptyObject, "Carrito vaciado")
          ELSE Returns("", "", "", "")

(***************************************************************************)
(* Search and sort of the product list.                                    *)
(***************************************************************************)
UpperChars == <<"A", "B", "C", "D", "E", "F", "G", "H", "I", "J", "K", "L", "M",
                "N", "O", "P", "Q", "R", "S", "T", "U", "V", "W", "X", "Y", "Z">>

LowerChars == <<"a", "b", "c", "d", "e", "f", "g", "h", "i", "j", "k", "l", "m",
                "n", "o", "p", "q", "r", "s", "t", "u", "v", "w", "x", "y", "z">>

\* the lower-case form of the upper-case letters of the texts modelled
LowerOf == [c \in {UpperChars[i] : i \in 1..26} |->
              LowerChars[CHOOSE i \in 1..26 : UpperChars[i] = c]]

RECURSIVE LowerFrom(_, _)
LowerFrom(s, i) ==
  IF i > Len(s) THEN ""
  ELSE (IF CharAt(s, i) \in DOMAIN LowerOf THEN LowerOf[CharAt(s, i)]
        ELSE CharAt(s, i)) \o LowerFrom(s, i + 1)

\* s.toLowerCase()
toLowerCase(s) == LowerFrom(s, 1)

RECURSIVE trim(_)
\* s.trim(), the white space of the texts modelled being the space
trim(s) ==
  IF s = "" THEN s
  ELSE IF CharAt(s, 1) = " " THEN trim(SubSeq(s, 2, Len(s)))
  ELSE IF CharAt(s, Len(s)) = " " THEN trim(SubSeq(s, 1, Len(s) - 1))
  ELSE s

\* s.includes(q)
includes(s, q) ==
  \E i \in 1..(Len(s) - Len(q) + 1) : SubSeq(s, i, i + Len(q) - 1) = q

RECURSIVE Filter(_, _, _)
\* list.filter(p => ...) of lines 234-236, from element i on
Filter(list, query, i) ==
  IF i > Len(list) THEN <<>>
  ELSE (IF includes(toLowerCase(list[i].name), query)
           \/ includes(toLowerCase(list[i].desc), query)
        THEN <<list[i]>> ELSE <<>>) \o Filter(list, query, i + 1)

\* the compare functions of lines 244 and 245
compare(value, a, b) ==
  IF value = "price-asc" THEN a.price - b.price ELSE b.price - a.price

RECURSIVE Insert(_, _, _)
\* sorted with p put after the elements it does not compare less than
Insert(sorted, p, value) ==
  IF sorted = <<>> THEN <<p>>
  ELSE IF compare(value, p, Head(sorted)) < 0 THEN <<p>> \o sorted
  ELSE <<Head(sorted)>> \o Insert(Tail(sorted), p, value)

RECURSIVE SortBy(_, _, _)
\* list.sort(compare), which is stable: the first i elements of list, each
\* inserted in turn into the sorted elements before it
SortBy(list, i, value) ==
  IF i = 0 THEN <<>> ELSE Insert(SortBy(list, i - 1, value), list[i], value)

\* lines 243-245: a sorted copy of list, or the copy as it is
sortedList(list, value) ==
  IF value \in {"price-asc", "price-desc"} THEN SortBy(list, Len(list), value)
  ELSE list

\* texts typed into the search box
SearchInputs == {"", "MUG "}

\* values of the sort select
SortInputs == {"price-asc", "price-desc", "default"}

\* the page shows list in the product grid; nothing else changes
Shows(list) ==
  /\ productGrid' = renderProducts(list)
  /\ error' = "none"
  /\ miniAlert' = "" /\ alertMsg' = "" /\ summaryDoc' = "" /\ openedUrl' = ""
  /\ UNCHANGED << products, localStorage, cart, cartType, phase, cartCount,
                  cartList, totalEl, fnArg, fnResult >>

\* input event of the search box (lines 232-238)
SearchInput ==
  /\ phase = "ready"
  /\ \E value \in SearchInputs :
       /\ lastOp' = [op |-> "search", arg |-> value]
       /\ Shows(Filter(products, trim(toLowerCase(value)), 1))

\* mutant of SortChange: products itself is sorted, not a copy of it
SortChange_inPlace ==
  /\ phase = "ready"
  /\ \E value \in SortInputs :
       /\ lastOp' = [op |-> "sort", arg |-> value]
       /\ products' = sortedList(products, value)
       /\ productGrid' = renderProducts(products')
       /\ error' = "none"
       /\ miniAlert' = "" /\ alertMsg' = "" /\ summaryDoc' = "" /\ openedUrl' = ""
       /\ UNCHANGED << localStorage, cart, cartType, phase, cartCount,
                       cartList, totalEl, fnArg, fnResult >>

\* change event of the sort select (lines 241-247)
SortChange ==
  /\ phase = "ready"
  /\ \E value \in SortInputs :
       /\ lastOp' = [op |-> "sort", arg |-> value]
       /\ Shows(sortedList(products, value))

(***************************************************************************)
(* Checkout: the order summary and the WhatsApp link (lines 250-300).      *)
(***************************************************************************)
\* characters encodeURIComponent leaves as they are
Unreserved ==
  {UpperChars[i] : i \in 1..26} \cup {LowerChars[i] : i \in 1..26} \cup DigitChars
    \cup {"-", "_", ".", "!", "~", "*", "'", "(", ")"}

\* the percent-encoding of the UTF-8 bytes of the other characters that the
\* texts modelled contain
PercentCode ==
  (" " :> "%20") @@ ("\"" :> "%22") @@ ("#" :> "%23") @@ ("$" :> "%24")
  @@ ("%" :> "%25") @@ ("&" :> "%26") @@ ("+" :> "%2B") @@ ("," :> "%2C")
  @@ ("/" :> "%2F") @@ (":" :> "%3A") @@ (";" :> "%3B") @@ ("<" :> "%3C")
  @@ ("=" :> "%3D") @@ (">" :> "%3E") @@ ("?" :> "%3F") @@ ("@" :> "%40")
  @@ ("á" :> "%C3%A1") @@ ("é" :> "%C3%A9") @@ ("í" :> "%C3%AD")
  @@ ("ñ" :> "%C3%B1") @@ ("ó" :> "%C3%B3") @@ ("ú" :> "%C3%BA")

RECURSIVE EncodeFrom(_, _)
EncodeFrom(s, i) ==
  IF i > Len(s) THEN ""
  ELSE (IF CharAt(s, i) \in Unreserved THEN CharAt(s, i)
        ELSE PercentCode[CharAt(s, i)]) \o EncodeFrom(s, i + 1)

encodeURIComponent(s) == EncodeFrom(s, 1)

RECURSIVE SummaryRows(_, _)
\* lines 266-270: the table rows of the items from item i on
SummaryRows(items, i) ==
  IF i > Len(items) THEN ""
  ELSE "<tr><td>" \o escapeHtml(items[i].name) \o "</td><td>"
       \o numToString(items[i].qty) \o "</td><td>"
       \o formatMoney(items[i].price) \o "</td><td>"
       \o formatMoney(items[i].qty * items[i].price) \o "</td></tr>"
       \o SummaryRows(items, i + 1)

\* lines 263-272 (the dash of the heading is written "-" here)
htmlContent(items, now) ==
  "<!doctype html><html><head><meta charset=\"utf-8\"><meta name=\"viewport\" content=\"width=device-width,initial-scale=1\"><title>Resumen de pedido</title><link rel=\"stylesheet\" href=\"style.css\"></head><body class=\"checkout-summary\">"
  \o "<h1>Resumen de pedido - Tienda Navideña</h1><p class=\"small\">Fecha: "
  \o now
  \o "</p><table><thead><tr><th>Producto</th><th>Cantidad</th><th>Precio Unitario</th><th>Subtotal</th></tr></thead><tbody>"
  \o SummaryRows(items, 1)
  \o "</tbody><tfoot><tr><td colspan=\"3\">Total</td><td>"
  \o formatMoney(SumTotal(items, 1)) \o "</td></tr></tfoot></table>"
  \o "<p>Gracias por su compra. Para enviar este pedido por WhatsApp haga clic en el botón abajo.</p>"

RECURSIVE WaLines(_, _)
\* lines 277-279
WaLines(items, i) ==
  IF i > Len(items) THEN ""
  ELSE encodeURIComponent(numToString(items[i].qty) \o " x " \o items[i].name
                          \o " - " \o formatMoney(items[i].price * items[i].qty))
       \o "%0A" \o WaLines(items, i + 1)

\* lines 275-282
waUrl(items) ==
  "https://wa.me/573237918080?text="
  \o "¡Hola! Me gustaría hacer un pedido de la Tienda Navideña:%0A%0A"
  \o "*Resumen del Pedido:*%0A"
  \o WaLines(items, 1)
  \o "%0A*Total:* " \o encodeURIComponent(formatMoney(SumTotal(items, 1))) \o "%0A"
  \o "%0APor favor, confírmame la disponibilidad y los detalles de entrega. ¡Gracias!"

\* line 287: what is written to the new window
summaryDocument(items, now) ==
  htmlContent(items, now)
  \o "<p><a id='wa-link' href='" \o waUrl(items)
  \o "' target='_blank' class=\"button\">Enviar pedido por WhatsApp</a></p><p><button id='close-summary-window' class=\"button\">Cerrar Resumen</button></p></body></html>"

EmptyCartAlert ==
  "El carrito está vacío. Por favor, añade algunos productos antes de comprar."

PopupAlert ==
  "Por favor, permite las ventanas emergentes para ver el resumen de tu pedido y enviar por WhatsApp."

\* results of new Date().toLocaleString('es-ES', ...)
NowInputs == {"4 de noviembre de 2026, 06:09:00"}

\* mutant of CheckoutClick: the test for an empty cart is missing
CheckoutClick_noEmptyCheck ==
  /\ phase = "ready"
  /\ \E opened \in BOOLEAN, now \in NowInputs :
       LET items == ObjectValues(cart)
       IN /\ lastOp' = [op |-> "checkout", arg |-> IF opened THEN "window" ELSE "blocked"]
          /\ IF opened THEN Returns("", "", summaryDocument(items, now), "")
             ELSE Returns("", PopupAlert, "", waUrl(items))

\* click on 'checkoutBtn' (lines 250-300); opened is whether window.open()
\* gave a window
CheckoutClick ==
  /\ phase = "ready"
  /\ \E opened \in BOOLEAN, now \in NowInputs :
       LET items == ObjectValues(cart)
       IN /\ lastOp' = [op |-> "checkout", arg |-> IF opened THEN "window" ELSE "blocked"]
          /\ IF Len(items) = 0 THEN Returns("", EmptyCartAlert, "", "")
             ELSE IF opened THEN Returns("", "", summaryDocument(items, now), "")
             ELSE Returns("", PopupAlert, "", waUrl(items))

\* contents of the slot that this page did not write
SlotInputs ==
  LET p == catalog[1]
      entry(id, name, price, qty) ==
        [id |-> id, name |-> name, price |-> price, desc |-> p.desc, qty |-> qty]
      object(key, e) == <<"{", Quote(key), ":">> \o EntryTokens(e) \o <<"}">>
  IN { [has |-> FALSE, text |-> <<>>],
       [has |-> TRUE, text |-> <<>>],
       [has |-> TRUE, text |-> <<"{">>],
       [has |-> TRUE, text |-> <<"carrito">>],
       [has |-> TRUE, text |-> <<"null">>],
       [has |-> TRUE, text |-> object("1", entry(1, p.name, p.price, 1))],
       [has |-> TRUE, text |-> object("1", entry(1, "Caja vieja", 11000, 1))],
       [has |-> TRUE, text |-> object("1", entry(1, "Caja 'Noel'", p.price, 1))],
       [has |-> TRUE, text |-> object("1", entry(2, p.name, p.price, 1))],
       [has |-> TRUE, text |-> object("99", entry(99, "Fantasma", 500, 1))],
       [has |-> TRUE, text |-> object("1", entry(1, p.name, p.price, 0))],
       [has |-> TRUE, text |-> object("1", entry(1, p.name, p.price, 0 - 1))] }

\* the entry of the first product as it was copied from an earlier edition of
\* the catalog, which had another name and another price for it
OlderEntry ==
  [id |-> catalog[1].id, name |-> "Caja vieja", price |-> 11000,
   desc |-> catalog[1].desc, qty |-> 1]

\* contents of the slot that persistCart wrote on an earlier visit: one
\* entry, copied from the catalog as it is now or as it was then
ReturnSlots ==
  { persistCart("object", addToCart(EmptyObject, catalog[1])),
    persistCart("object", SetKey(EmptyObject, numToString(OlderEntry.id), OlderEntry)) }

\* a later visit: the slot holds what an earlier visit left in it
InitReturn == (\E ls \in ReturnSlots : InitWith(ls)) /\ NoCall

\* a visit that finds any of these contents in the slot
InitSlot == (\E ls \in SlotInputs : InitWith(ls)) /\ NoCall

Next ==
  \/ AddClick
  \/ CartItemClick
  \/ EmptyCartClick
  \/ ClearHeaderClick
  \/ SearchInput
  \/ SortChange
  \/ CheckoutClick
  \/ Reload

(***************************************************************************)
(* The utility functions called on their own, on arguments of a bounded    *)
(* set: the page stays as it is after a first visit.                       *)
(***************************************************************************)
\* every amount up to this one is an argument of formatMoney
MaxMoney == 1100

\* amounts given to formatMoney: the small ones, and larger ones of four to
\* ten digits
MoneyInputs ==
  (0..MaxMoney) \cup {9999, 10000, 12000, 30000, 99999, 100000, 999999, 1000000,
                      1234567, 25000000, 999999999, 1000000000}
    \cup {catalog[i].price : i \in 1..Len(catalog)}

InitMoney ==
  /\ InitWith([has |-> FALSE, text |-> <<>>])
  /\ fnArg \in MoneyInputs
  /\ fnResult = Pending

\* formatMoney(fnArg) is called and returns
FormatMoneyCall ==
  /\ ~fnResult.returned
  /\ fnResult' = [returned |-> TRUE, value |-> formatMoney(fnArg)]
  /\ UNCHANGED << products, localStorage, cart, cartType, phase, productGrid,
                  cartCount, cartList, totalEl, error, miniAlert, alertMsg,
                  summaryDoc, openedUrl, lastOp, fnArg >>

\* the texts given to escapeHtml are of at most this length
MaxLen == 3

\* characters of the texts given to escapeHtml: the five it replaces and
\* three of those that its entities are written with
EscapeChars == {"&", "<", ">", "\"", "'", "a", ";", "#"}

RECURSIVE TextsOfLen(_)
\* the texts of n characters
TextsOfLen(n) ==
  IF n = 0 THEN {""}
  ELSE {s \o c : s \in TextsOfLen(n - 1), c \in EscapeChars}

\* texts given to escapeHtml: every short one, some longer ones, and the
\* names and descriptions of the catalog
EscapeInputs ==
  UNION {TextsOfLen(n) : n \in 0..MaxLen}
    \cup {"&<>\"'", "&amp;", "&#039;", "<a href='x' title=\"y\">T&C</a>"}
    \cup {catalog[i].name : i \in 1..Len(catalog)}
    \cup {catalog[i].desc : i \in 1..Len(catalog)}

InitEscape ==
  /\ InitWith([has |-> FALSE, text |-> <<>>])
  /\ fnArg \in EscapeInputs
  /\ fnResult = Pending

\* escapeHtml(fnArg) is called and returns
EscapeHtmlCall ==
  /\ ~fnResult.returned
  /\ fnResult' = [returned |-> TRUE, value |-> escapeHtml(fnArg)]
  /\ UNCHANGED << products, localStorage, cart, cartType, phase, productGrid,
                  cartCount, cartList, totalEl, error, miniAlert, alertMsg,
                  summaryDoc, openedUrl, lastOp, fnArg >>

SpecMoney == InitMoney /\ [][FormatMoneyCall]_vars

SpecEscape == InitEscape /\ [][EscapeHtmlCall]_vars

\* the page from its first visit on
Spec == Init /\ [][Next]_vars

\* the page from a visit that finds the slot written by something else
SpecSlot == InitSlot /\ [][Next]_vars

\* the page from a later visit on
SpecReturn == InitReturn /\ [][Next]_vars

(***************************************************************************)
(* Properties.                                                             *)
(***************************************************************************)
CatalogIds == {catalog[i].id : i \in 1..Len(catalog)}

\* the property key of the entry that the event's data-id names
ArgKey(op) == KeyOf(parseInt(op.arg))

\* the quantity a cart object holds under key k, 0 when it has no such entry
QtyAt(obj, k) == IF HasKey(obj, k) THEN obj[k].qty ELSE 0

RECURSIVE QtySum(_, _)
\* the sum of the qty fields of the entries of obj under the keys ks
QtySum(obj, ks) ==
  IF ks = {} THEN 0
  ELSE LET k == CHOOSE x \in ks : TRUE IN obj[k].qty + QtySum(obj, ks \ {k})

\* the entries under every key but k are the same in a and in b
OthersSame(a, b, k) ==
  /\ (DOMAIN a) \ {k} = (DOMAIN b) \ {k}
  /\ \A o \in (DOMAIN a) \ {k} : a[o] = b[o]

\* the items of the cart panel whose buttons carry data-id k
ItemsFor(list, k) == {i \in 1..Len(list) : list[i].id = k}

\* C1: the item count shown by renderCart is the sum of the quantities of the
\* entries present in the cart, and that sum is never negative.
C1_ItemCountIsSum ==
  phase = "ready" =>
    /\ cartCount = numToString(QtySum(cart, DOMAIN cart))
    /\ QtySum(cart, DOMAIN cart) >= 0

\* C1 witness: a decrement left two entries whose quantities add up to 3.
C1_Witness ==
  /\ lastOp.op = "minus" /\ error = "none"
  /\ Cardinality(DOMAIN cart) = 2
  /\ cartCount = "3"

\* C2: every entry of the cart and every entry recorded in the slot has a
\* quantity of at least 1.
C2_QuantitiesPositive ==
  /\ \A k \in DOMAIN cart : cart[k].qty >= 1
  /\ localStorage.has =>
       /\ JSONparse(localStorage.text).ok
       /\ \A k \in DOMAIN JSONparse(localStorage.text).obj :
            JSONparse(localStorage.text).obj[k].qty >= 1

\* C2 witness: a decrement of a quantity of 1 has removed the entry, another
\* entry is still there and the slot has been written.
C2_Witness ==
  /\ lastOp = [op |-> "minus", arg |-> "1"] /\ error = "none"
  /\ ~HasKey(cart, "1") /\ HasKey(cart, "2")
  /\ localStorage.has

\* the latest event was a mutation handler that ran to its end: an add of a
\* catalog id, a click in the cart panel, or a confirmed clear
AfterMutation ==
  /\ error = "none"
  /\ \/ lastOp.op = "add" /\ ~parseInt(lastOp.arg).nan
                          /\ parseInt(lastOp.arg).n \in CatalogIds
     \/ lastOp.op \in {"plus", "minus", "remove"}
     \/ lastOp.op \in {"empty", "clear"} /\ lastOp.arg = "yes"

\* C3: when a mutation handler has returned, the slot holds exactly the JSON
\* text of the cart.
C3_WriteThrough ==
  AfterMutation =>
    localStorage = [has |-> TRUE, text |-> JSONstringify("object", cart)]

\* C3 witness: a remove has returned and left a non-empty cart.
C3_Witness ==
  /\ lastOp.op = "remove" /\ error = "none"
  /\ cart # EmptyObject

\* C4: a reload gives the cart it was before the reload, with the same keys
\* and the same id, name, price, desc and qty under each key.
C4_ReloadRoundTrip ==
  [][lastOp'.op = "reload" =>
       /\ phase' = "ready" /\ cartType' = "object"
       /\ DOMAIN cart' = DOMAIN cart
       /\ \A k \in DOMAIN cart : cart'[k] = cart[k]]_vars

\* C4 witness: the page was reloaded with two entries in the cart, one of
\* them with quantity 2.
C4_Witness ==
  /\ lastOp.op = "reload"
  /\ Cardinality(DOMAIN cart) = 2
  /\ \E k \in DOMAIN cart : cart[k].qty = 2

\* C5 (as claimed): after a page load that finds a text in the slot that is
\* not JSON, the cart is the empty cart, nothing was thrown and init has run
\* to its end.
C5_GarbageGivesEmptyCart ==
  (lastOp.op \in {"load", "reload"} /\ ~JSONparse(StoredText(localStorage)).ok) =>
    /\ phase = "ready" /\ error = "none"
    /\ cartType = "object" /\ cart = EmptyObject
    /\ productGrid = renderProducts(catalog)

\* C6 (as claimed): whatever the slot held, the cart is an object in which
\* every key is the id of its entry and the id of a catalog product.
C6_CartInvariants ==
  phase # "crashed" =>
    /\ cartType = "object"
    /\ \A k \in DOMAIN cart :
         /\ k = numToString(cart[k].id)
         /\ cart[k].id \in CatalogIds

\* C7: an add of a catalog id raises the quantity under that id by exactly 1,
\* leaves one entry and one rendered item for it, and leaves every other
\* entry as it was.
C7_AddIncrementsByOne ==
  [][\A id \in CatalogIds :
       lastOp' = [op |-> "add", arg |-> numToString(id)] =>
         /\ error' = "none"
         /\ HasKey(cart', numToString(id))
         /\ cart'[numToString(id)].id = id
         /\ QtyAt(cart', numToString(id)) = QtyAt(cart, numToString(id)) + 1
         /\ Cardinality(ItemsFor(cartList', numToString(id))) = 1
         /\ OthersSame(cart, cart', numToString(id))]_vars

\* C7 witness: product 1 was added a second time while product 2 is in the
\* cart.
C7_Witness ==
  /\ lastOp = [op |-> "add", arg |-> "1"]
  /\ HasKey(cart, "1") /\ cart["1"].qty = 2
  /\ HasKey(cart, "2")

\* C8: an add whose id names no catalog product changes neither the cart nor
\* the slot nor the page, and throws nothing.
C8_AddUnknownIsNoOp ==
  [][(/\ lastOp'.op = "add"
      /\ \/ parseInt(lastOp'.arg).nan
         \/ parseInt(lastOp'.arg).n \notin CatalogIds) =>
       /\ error' = "none" /\ miniAlert' = ""
       /\ cart' = cart /\ cartType' = cartType
       /\ localStorage' = localStorage
       /\ cartList' = cartList /\ cartCount' = cartCount]_vars

\* C8 witness: an add with a non-numeric id was made on a non-empty cart.
C8_Witness ==
  /\ lastOp = [op |-> "add", arg |-> "abc"]
  /\ cart # EmptyObject

\* C9: a decrement of an existing entry of quantity n leaves it with n - 1
\* when n > 1 and removes it when n = 1; every other entry stays as it was.
C9_Decrement ==
  [][(lastOp'.op = "minus" /\ HasKey(cart, ArgKey(lastOp')) /\ cart[ArgKey(lastOp')].qty >= 1) =>
       LET k == ArgKey(lastOp')
       IN /\ error' = "none"
          /\ cart[k].qty > 1 =>
               /\ HasKey(cart', k)
               /\ cart'[k] = [cart[k] EXCEPT !.qty = cart[k].qty - 1]
          /\ cart[k].qty = 1 =>
               /\ ~HasKey(cart', k)
               /\ ItemsFor(cartList', k) = {}
          /\ OthersSame(cart, cart', k)]_vars

\* C9 witness: the entry of product 1 was removed by a decrement while the
\* entry of product 2 stayed.
C9_Witness ==
  /\ lastOp = [op |-> "minus", arg |-> "1"] /\ error = "none"
  /\ ~HasKey(cart, "1") /\ HasKey(cart, "2") /\ cart["2"].qty = 2

\* C10 (as claimed): a plus, minus or remove for an id the cart has no entry
\* for throws nothing and leaves the cart as it was.
C10_AbsentIdIgnored ==
  [][(lastOp'.op \in {"plus", "minus", "remove"} /\ ~HasKey(cart, ArgKey(lastOp'))) =>
       /\ error' = "none"
       /\ cart' = cart]_vars

\* C11: a remove leaves no entry and no rendered item for its id, whatever
\* the quantity was, leaves every other entry as it was, and writes the
\* resulting cart to the slot.
C11_RemoveDeletes ==
  [][lastOp'.op = "remove" =>
       LET k == ArgKey(lastOp')
       IN /\ error' = "none"
          /\ ~HasKey(cart', k)
          /\ ItemsFor(cartList', k) = {}
          /\ OthersSame(cart, cart', k)
          /\ localStorage' = [has |-> TRUE, text |-> JSONstringify("object", cart')]]_vars

\* C11 witness: the entry of product 2 was removed while the entry of
\* product 1, with quantity 2, stayed in the cart and in the slot.
C11_Witness ==
  /\ lastOp = [op |-> "remove", arg |-> "2"] /\ error = "none"
  /\ ~HasKey(cart, "2") /\ HasKey(cart, "1") /\ cart["1"].qty = 2
  /\ JSONparse(localStorage.text).obj = cart

\* C12: on either clear button, a confirmed click leaves the empty cart in
\* memory and its JSON text in the slot, and a declined click leaves the cart
\* and the slot as they were.
C12_ClearGatedByConfirm ==
  [][lastOp'.op \in {"empty", "clear"} =>
       /\ lastOp'.arg = "yes" =>
            /\ cart' = EmptyObject /\ cartList' = <<>>
            /\ localStorage' = [has |-> TRUE, text |-> <<"{", "}">>]
       /\ lastOp'.arg = "no" =>
            /\ cart' = cart /\ cartList' = cartList
            /\ localStorage' = localStorage]_vars

\* C12 witness: the clear button of the header was clicked and declined with
\* two entries in the cart, which are still there and in the slot.
C12_Witness ==
  /\ lastOp = [op |-> "clear", arg |-> "no"]
  /\ Cardinality(DOMAIN cart) = 2
  /\ Len(cartList) = 2
  /\ localStorage.has /\ localStorage.text # <<"{", "}">>

RECURSIVE OrderTotal(_, _)
\* the sum of quantity * price over the entries of obj under the keys ks
OrderTotal(obj, ks) ==
  IF ks = {} THEN 0
  ELSE LET k == CHOOSE x \in ks : TRUE
       IN obj[k].qty * obj[k].price + OrderTotal(obj, ks \ {k})

\* the cart after two adds of the first product and one add of the third:
\* 2 at 12000 and 1 at 6000
ExampleCart ==
  addToCart(addToCart(addToCart(EmptyObject, productsData[1]), productsData[1]),
            productsData[3])

\* C13: the total shown by renderCart, the total of the summary document and
\* the total of the message link are the sum of quantity * price over the
\* entries of the cart; that sum is never negative and is 0 for the empty
\* cart; for 2 at 12000 and 1 at 6000 it is 30000.
C13_OrderTotal ==
  LET total == OrderTotal(cart, DOMAIN cart)
  IN /\ phase = "ready" =>
          /\ totalEl = formatMoney(total)
          /\ total >= 0
          /\ cart = EmptyObject => (total = 0 /\ totalEl = "$0")
     /\ summaryDoc # "" =>
          includes(summaryDoc,
                   "<td colspan=\"3\">Total</td><td>" \o formatMoney(total) \o "</td>")
     /\ openedUrl # "" =>
          includes(openedUrl, "*Total:* " \o encodeURIComponent(formatMoney(total)) \o "%0A")
     /\ SumTotal(ObjectValues(ExampleCart), 1) = 30000
     /\ renderCart("object", ExampleCart).totalEl = "$30.000"

\* C13 witness: after a decrement the cart holds 2 of product 1 (12000) and 1
\* of product 2 (25000), and the page shows 49000.
C13_Witness ==
  /\ lastOp.op = "minus" /\ error = "none"
  /\ HasKey(cart, "1") /\ cart["1"].qty = 2
  /\ HasKey(cart, "2") /\ cart["2"].qty = 1
  /\ totalEl = "$49.000"

\* C14: an entry that a step creates has the name and the price of the
\* catalog product of its id; an entry that is in the cart before and after a
\* step (an add, a plus, a minus, a reload or any other) keeps its name and
\* its price, also when the catalog has other values for its id.
C14_Snapshot ==
  [][/\ \A k \in (DOMAIN cart') \ (DOMAIN cart) :
          \E i \in 1..Len(products) :
            /\ products[i].id = cart'[k].id
            /\ cart'[k].name = products[i].name
            /\ cart'[k].price = products[i].price
     /\ \A k \in (DOMAIN cart') \cap (DOMAIN cart) :
          /\ cart'[k].name = cart[k].name
          /\ cart'[k].price = cart[k].price]_vars

\* C14 witness: the page was reloaded with an entry for product 1 that has
\* been added to since it was stored (quantity 2) and whose name and price
\* are those of the older catalog, not those of the catalog now.
C14_Witness ==
  /\ lastOp.op = "reload"
  /\ HasKey(cart, "1") /\ cart["1"].qty = 2
  /\ cart["1"].name = OlderEntry.name /\ cart["1"].price = OlderEntry.price
  /\ products[1].name # cart["1"].name /\ products[1].price # cart["1"].price

\* C15: a checkout with an empty cart tells the user so, writes no summary
\* document and opens no link; a checkout with any cart leaves the cart, the
\* slot and the cart panel as they were.
C15_CheckoutRefusedWhenEmpty ==
  [][lastOp'.op = "checkout" =>
       /\ cart = EmptyObject =>
            /\ alertMsg' = EmptyCartAlert
            /\ summaryDoc' = "" /\ openedUrl' = ""
       /\ cart # EmptyObject => (summaryDoc' # "" \/ openedUrl' # "")
       /\ cart' = cart /\ cartType' = cartType
       /\ localStorage' = localStorage
       /\ cartList' = cartList /\ cartCount' = cartCount /\ totalEl' = totalEl]_vars

\* C15 witness: a checkout was refused on a cart that had been filled and
\* emptied again; the slot still holds the empty cart.
C15_Witness ==
  /\ lastOp.op = "checkout"
  /\ cart = EmptyObject /\ localStorage = [has |-> TRUE, text |-> <<"{", "}">>]
  /\ alertMsg = EmptyCartAlert /\ summaryDoc = "" /\ openedUrl = ""

RECURSIVE DigitCount(_)
\* the number of decimal digits of n
DigitCount(n) == IF n < 10 THEN 1 ELSE 1 + DigitCount(n \div 10)

RECURSIVE GroupedValue(_, _, _)
\* the number that the digits of s from position i on denote, its '.'
\* characters passed over, given the value acc of the digits before i
GroupedValue(s, i, acc) ==
  IF i > Len(s) THEN acc
  ELSE IF CharAt(s, i) = "." THEN GroupedValue(s, i + 1, acc)
  ELSE GroupedValue(s, i + 1, acc * 10 + DigitVal[CharAt(s, i)])

\* C16: formatMoney(n) is '$' and then a text in which, counted from the
\* right, every fourth character is a '.' and every other character a digit,
\* which does not begin with a '.', and whose digits are the decimal digits
\* of n; so 30000 gives '$30.000', 1000000 gives '$1.000.000', and an amount
\* below 1000 has no '.'.
C16_FormatMoneyGroups ==
  (fnResult.returned /\ fnArg \in MoneyInputs) =>
    LET r == fnResult.value
        body == SubSeq(r, 2, Len(r))
        L == Len(body)
    IN /\ CharAt(r, 1) = "$"
       /\ L >= 1 /\ CharAt(body, 1) # "."
       /\ \A i \in 1..L :
            IF (L - i + 1) % 4 = 0 THEN CharAt(body, i) = "."
            ELSE IsDigit(CharAt(body, i))
       /\ GroupedValue(body, 1, 0) = fnArg
       /\ Cardinality({i \in 1..L : CharAt(body, i) # "."}) = DigitCount(fnArg)
       /\ fnArg < 1000 => "." \notin CharsOf(r)
       /\ fnArg = 30000 => r = "$30.000"
       /\ fnArg = 1000000 => r = "$1.000.000"

\* C16 witness: formatMoney(1000000) has returned a text with two separators.
C16_Witness ==
  /\ fnResult.returned
  /\ fnArg = 1000000
  /\ fnResult.value = "$1.000.000"

\* the entity form of a character, the character itself when it has none
EntityOf(c) ==
  CASE c = "&" -> "&amp;"
    [] c = "<" -> "&lt;"
    [] c = ">" -> "&gt;"
    [] c = "\"" -> "&quot;"
    [] c = "'" -> "&#039;"
    [] OTHER -> c

RECURSIVE EntitiesFrom(_, _)
\* the entity forms of the characters of s from position i on, in their order
EntitiesFrom(s, i) ==
  IF i > Len(s) THEN "" ELSE EntityOf(CharAt(s, i)) \o EntitiesFrom(s, i + 1)

\* C17: escapeHtml(s) is s with each '&', '<', '>', '"' and ''' replaced by
\* its entity and every other character kept, in the same order; no '&' of
\* an entity is replaced a second time.
C17_EscapeOnce ==
  (fnResult.returned /\ fnArg \in EscapeInputs) =>
    fnResult.value = EntitiesFrom(fnArg, 1)

\* C17 witness: escapeHtml has returned for a text that holds each of the
\* five characters.
C17_Witness ==
  /\ fnResult.returned
  /\ fnArg = "&<>\"'"
  /\ fnResult.value = "&amp;&lt;&gt;&quot;&#039;"

\* the position at which the first occurrence of q in s starts, 0 if none
IndexOf(s, q) ==
  LET at == {i \in 1..(Len(s) - Len(q) + 1) : SubSeq(s, i, i + Len(q) - 1) = q}
  IN IF at = {} THEN 0 ELSE CHOOSE i \in at : \A j \in at : i <= j

\* how the 'wa-link' element of the summary document starts: the value of
\* its href attribute follows, in single quotes
LinkOpening == "<a id='wa-link' href='"

\* the value of the href attribute of the 'wa-link' element of doc, as a
\* browser reads it: the characters up to the next single quote
HrefOf(doc) ==
  LET from == IndexOf(doc, LinkOpening) + Len(LinkOpening)
      rest == SubSeq(doc, from, Len(doc))
  IN SubSeq(rest, 1, IndexOf(rest, "'") - 1)

\* C18 (as claimed): in the summary document that checkout writes, every
\* entry name stands in its escaped form, and the message link built from
\* the entry names is embedded in its escaped form, so that the href
\* attribute holds the whole link and no name ends it.
C18_TextEscapedInMarkup ==
  (lastOp.op = "checkout" /\ summaryDoc # "") =>
    LET items == ObjectValues(cart)
    IN /\ \A i \in 1..Len(items) :
            includes(summaryDoc, "<tr><td>" \o escapeHtml(items[i].name) \o "</td>")
       /\ HrefOf(summaryDoc) = escapeHtml(waUrl(items))

\* the step is a mutation handler: an add of a catalog id, a click in the
\* cart panel, or a confirmed clear
MutationStep ==
  \/ lastOp'.op = "add" /\ ~parseInt(lastOp'.arg).nan
                        /\ parseInt(lastOp'.arg).n \in CatalogIds
  \/ lastOp'.op \in {"plus", "minus", "remove"}
  \/ lastOp'.op \in {"empty", "clear"} /\ lastOp'.arg = "yes"

\* C19: a mutation handler runs to its end in one step, in which the slot is
\* written with the updated cart and the page is rendered from the updated
\* cart; after every handler the item count shown and the total shown are
\* those of the cart as it is, and the cart panel lists its entries.
C19_NoStaleView ==
  [][/\ MutationStep =>
          /\ error' = "none"
          /\ localStorage' = [has |-> TRUE, text |-> JSONstringify("object", cart')]
     /\ phase' = "ready" =>
          /\ cartCount' = numToString(QtySum(cart', DOMAIN cart'))
          /\ totalEl' = formatMoney(OrderTotal(cart', DOMAIN cart'))
          /\ Len(cartList') = Cardinality(DOMAIN cart')
          /\ \A i \in 1..Len(cartList') :
               /\ HasKey(cart', cartList'[i].id)
               /\ cartList'[i].qty = numToString(cart'[cartList'[i].id].qty)]_vars

\* C19 witness: a plus has run on a cart of two entries; the slot and the
\* page show the cart after it (quantities 2 and 1, total 49000).
C19_Witness ==
  /\ lastOp = [op |-> "plus", arg |-> "1"] /\ error = "none"
  /\ cartList = <<[id |-> "1", qty |-> "2"], [id |-> "2", qty |-> "1"]>>
  /\ cartCount = "3" /\ totalEl = "$49.000"
  /\ localStorage.text = JSONstringify("object", cart)

\* C20: the products array holds, in every state, the records it held at
\* startup, in their order; no add, plus, minus, remove, clear, search, sort
\* or checkout changes it.
C20_CatalogUnchanged ==
  /\ products = catalog
  /\ \A i \in 1..Len(products) :
       DOMAIN products[i] = {"id", "name", "price", "desc"}

\* C20 witness: the list was sorted by descending price while the cart holds
\* 2 of product 1; the grid shows product 2 first, the array is as it was.
C20_Witness ==
  /\ lastOp = [op |-> "sort", arg |-> "price-desc"]
  /\ productGrid = <<"2", "1">>
  /\ HasKey(cart, "1") /\ cart["1"].qty = 2
  /\ products[1].id = 1 /\ products[2].id = 2

====
